---- MODULE Spec2Model ----
(***************************************************************************)
(* Payment gate of the cover letter generator: the Streamlit script        *)
(* (main.py), the PaymentProcessor (utils/payment_handler.py), the Stripe  *)
(* provider and the Supabase ledger ('payments' table).                    *)
(*                                                                         *)
(* One Streamlit user session runs the script; a script run is a sequence  *)
(* of steps (pc) so that provider reads and ledger writes interleave with  *)
(* the webhook handler (verify_webhook), which runs as a separate process. *)
(***************************************************************************)
EXTENDS Integers, Sequences, FiniteSets, TLC

\* ---- bounds of the model ----
MaxSessions == 2
MaxTicks == 1
MaxPageLoads == 1
MaxGenerations == 2

\* ---- program constants ----
TimeoutBudget == 300
MaxRetries == 5
BackoffInterval == 2
CreateAttempts == 3
LogAttempts == 3
WebhookAttempts == 3

\* ---- values ----
Sids == 1..MaxSessions
\* the wall clock (UTC, seconds) when the user session opens, and the offsets
\* of the host's local time from UTC
Epoch == 2 * 3600
UtcOffsets == {0, 3600}
\* Python None and "key not in dict" for integer-valued slots
None == 0
Absent == -1
\* the amounts by which the wall clock advances between user interactions
ClockSteps == {TimeoutBudget, TimeoutBudget + 1}
\* Stripe's payment_status values of a checkout session
PaymentStatuses == {"unpaid", "paid", "no_payment_required"}
\* webhook signing secrets: the configured one and a wrong one
WebhookSecret == "whsec"
Signatures == {"whsec", "bad-signature"}

\* ---- the checkout URL and the session id the script cuts out of it ----
\* a URL is a sequence of tokens: literals are negative, a session id positive
TokBase == -10
TokPay == -11
TokHash == -12
TokFragment == -13

\* session.url of a checkout session: https://checkout.stripe.com/c/pay/<id>#<fragment>
SessionUrl(sid) == <<TokBase, TokPay, sid, TokHash, TokFragment>>

\* str.split(sep)[-1]: what follows the last occurrence of sep (all of it if none)
SplitLast(s, sep) ==
  IF \E i \in 1..Len(s) : s[i] = sep
    THEN LET i == CHOOSE j \in 1..Len(s) :
                    s[j] = sep /\ \A k \in (j+1)..Len(s) : s[k] # sep
         IN SubSeq(s, i + 1, Len(s))
    ELSE s

\* str.split(sep)[0]: what precedes the first occurrence of sep (all of it if none)
SplitFirst(s, sep) ==
  IF \E i \in 1..Len(s) : s[i] = sep
    THEN LET i == CHOOSE j \in 1..Len(s) :
                    s[j] = sep /\ \A k \in 1..(j-1) : s[k] # sep
         IN SubSeq(s, 1, i - 1)
    ELSE s

\* payment_url.split("/pay/")[-1].split("#")[0]; a piece that is not one id
\* token names no provider session
ParseSessionId(url) ==
  LET piece == SplitFirst(SplitLast(url, TokPay), TokHash)
  IN IF Len(piece) = 1 /\ piece[1] > 0 THEN piece[1] ELSE Absent

\* ---- st.session_state.payment_state ----
\* 'payment_state' not in st.session_state
NoPaymentState == [status |-> "absent", session_id |-> Absent, start_time |-> Absent, retries |-> Absent]
\* the dict the form block installs on the first run
InitialPaymentState(t) == [status |-> "unpaid", session_id |-> None, start_time |-> t, retries |-> 0]

\* ---- ledger rows ----
NoRow == [status |-> "norow", created_at |-> Absent, updated_at |-> Absent, stripe_data |-> "absent"]

\* generations counts the cover letters generated in the user session;
\* abandoned holds the session ids of the attempts the gate has failed
VARIABLES
  now, ticks, pageLoads, utcOffset,
  qp, payment_state, payment_success, payment_session_id,
  pc, run, chk, create,
  nSessions, provStatus, events,
  ledger,
  wh,
  pollHistory, nonPaidPolls, race, generations, abandoned

vars == <<now, ticks, pageLoads, utcOffset, qp, payment_state, payment_success, payment_session_id,
          pc, run, chk, create, nSessions, provStatus, events, ledger, wh,
          pollHistory, nonPaidPolls, race, generations, abandoned>>

\* a reset that keeps the attempt and only clears its retry counter
ResetKeepsAttempt == [payment_state EXCEPT !.retries = 0]

\* {'status': 'unpaid'}: every other key is gone
ResetPaymentState == [status |-> "unpaid", session_id |-> Absent, start_time |-> Absent, retries |-> Absent]

\* time.strftime('%Y-%m-%d %H:%M:%S'): the host's local time
LocalTimestamp == now + utcOffset
\* datetime.datetime.utcnow().isoformat()
UtcTimestamp == now

\* ---- ledger operations (Supabase 'payments' table) ----
\* table('payments').insert({... 'status': 'pending', 'created_at': ...})
LedgerInsert(l, sid, t) ==
  [l EXCEPT ![sid] = [status |-> "pending", created_at |-> t, updated_at |-> Absent, stripe_data |-> "absent"]]

\* check_payment_status: update({status, updated_at, stripe_data}).eq('session_id', sid)
PollUpdate(l, sid, st, t) ==
  IF sid \in Sids /\ l[sid] # NoRow
    THEN [l EXCEPT ![sid] = [@ EXCEPT !.status = st, !.updated_at = t, !.stripe_data = st]]
    ELSE l

\* a handler that leaves the status as log_transaction wrote it
WebhookStatusPending(session) == "pending"

\* the status verify_webhook writes for the event's session object
WebhookStatus(session) == session.payment_status

\* verify_webhook: update({status, updated_at, session_id}).eq('session_id', session['id'])
WebhookUpdate(l, session, t) ==
  IF session.id \in Sids /\ l[session.id] # NoRow
    THEN [l EXCEPT ![session.id] = [@ EXCEPT !.status = WebhookStatus(session), !.updated_at = t]]
    ELSE l

\* what verify_webhook's except clause catches: SignatureVerificationError
SignatureError == [type |-> "SignatureVerificationError", id |-> None, payment_status |-> "none"]

\* a verification that accepts every signature
construct_event_unverified(payload, sig_header) == payload

\* stripe.Webhook.construct_event: the event, or SignatureVerificationError
construct_event(payload, sig_header) ==
  IF sig_header = WebhookSecret THEN payload ELSE SignatureError

\* ---- records of the calls in progress ----
NoRun == [submitted |-> FALSE, trips |-> 0, outcome |-> "none"]
\* chk.attempt numbers the Session.retrieve calls of one check_payment_status
\* call: the function has no retry decorator, so the first is the only one
NoCheck == [site |-> "none", sid |-> Absent, status |-> "none", attempt |-> 0]
NewCheck(site, sid) == [site |-> site, sid |-> sid, status |-> "none", attempt |-> 1]
\* create.result is how the last create_payment_session call of the run ended:
\* "url" (returned session.url), "None" (returned None) or "raised"
NoCreate == [attempt |-> 0, logAttempt |-> 0, sid |-> None, result |-> "none"]
NoEvent == [type |-> "none", id |-> None, payment_status |-> "none"]
IdleWebhook == [pc |-> "idle", event |-> NoEvent, sig |-> "none", attempt |-> 0, result |-> "none"]

Init ==
  /\ now = Epoch
  /\ ticks = 0
  /\ pageLoads = 0
  /\ utcOffset \in UtcOffsets
  /\ qp = None
  /\ payment_state = NoPaymentState
  /\ payment_success = "absent"
  /\ payment_session_id = Absent
  /\ pc = "idle"
  /\ run = NoRun
  /\ chk = NoCheck
  /\ create = NoCreate
  /\ nSessions = 0
  /\ provStatus = [s \in Sids |-> "none"]
  /\ events = {}
  /\ ledger = [s \in Sids |-> NoRow]
  /\ wh = IdleWebhook
  /\ pollHistory = [s \in Sids |-> "never"]
  /\ nonPaidPolls = 0
  /\ race = None
  /\ generations = 0
  /\ abandoned = {}

providerVars == <<nSessions, provStatus, events>>
sessionVars == <<payment_state, payment_success, payment_session_id>>
historyVars == <<pollHistory, nonPaidPolls, race>>
clockVars == <<now, ticks, utcOffset>>

\* ---- environment: the clock, the browser, the payment provider ----
\* time passes between two user interactions
Tick(d) ==
  /\ pc = "idle"
  /\ ticks < MaxTicks
  /\ now' = now + d
  /\ ticks' = ticks + 1
  /\ UNCHANGED <<pageLoads, utcOffset, qp, generations, abandoned, sessionVars, pc, run, chk, create,
                 providerVars, ledger, wh, historyVars>>

\* the browser loads the app (q = None) or Stripe's success_url for session q:
\* a page load opens a new Streamlit session, whose session_state is empty
PageLoad(q) ==
  /\ pc = "idle"
  /\ pageLoads < MaxPageLoads
  /\ q \in {None} \cup (1..nSessions)
  /\ pageLoads' = pageLoads + 1
  /\ qp' = q
  /\ payment_state' = NoPaymentState
  /\ payment_success' = "absent"
  /\ payment_session_id' = Absent
  /\ run' = NoRun
  /\ chk' = NoCheck
  /\ create' = NoCreate
  /\ nonPaidPolls' = 0
  /\ generations' = 0
  /\ abandoned' = {}
  /\ UNCHANGED <<clockVars, pc, providerVars, ledger, wh, pollHistory, race>>

\* the customer completes the checkout of an open session; Stripe queues the
\* checkout.session.completed event (and, for a charge, payment_intent.succeeded)
Pay(s, st) ==
  /\ s \in 1..nSessions
  /\ provStatus[s] = "unpaid"
  /\ st \in {"paid", "no_payment_required"}
  /\ provStatus' = [provStatus EXCEPT ![s] = st]
  /\ events' = events
       \cup {[type |-> "checkout.session.completed", id |-> s, payment_status |-> st]}
       \cup (IF st = "paid"
               THEN {[type |-> "payment_intent.succeeded", id |-> s, payment_status |-> "none"]}
               ELSE {})
  /\ UNCHANGED <<clockVars, pageLoads, qp, generations, abandoned, sessionVars, pc, run, chk, create,
                 nSessions, ledger, wh, historyVars>>

\* ---- main(): one script run ----
\* a script run starts: the payment-success block runs when the query
\* parameters carry payment_success=true and a session_id
StartOfRun ==
  IF qp # None
    THEN pc' = "retrieve" /\ chk' = NewCheck("callback", qp)
    ELSE pc' = "form" /\ chk' = NoCheck

\* the user interacts with the page: sub says whether the form's submit button
\* was pressed
RunStart(sub) ==
  /\ pc = "idle"
  /\ run' = [NoRun EXCEPT !.submitted = sub]
  /\ create' = NoCreate
  /\ StartOfRun
  /\ UNCHANGED <<clockVars, pageLoads, qp, generations, abandoned, sessionVars, providerVars, ledger, wh, historyVars>>

\* st.rerun(): the script starts over, the submit button reads False
Rerun(base, outcome) ==
  /\ run' = [base EXCEPT !.submitted = FALSE, !.trips = 0, !.outcome = outcome]
  /\ StartOfRun

\* the script run ends (return, st.stop() or an uncaught exception); the
\* run's local variables are gone
EndRun(base, outcome) ==
  /\ pc' = "idle"
  /\ run' = [base EXCEPT !.outcome = outcome, !.submitted = FALSE]
  /\ chk' = NoCheck

\* the payment state after the form block's initialisation
EnsuredPaymentState ==
  IF payment_state.status = "absent" THEN InitialPaymentState(now) ELSE payment_state

\* a timeout test that already fires at the budget itself
TimedOutAtBudget(t, start) == t - start >= TimeoutBudget

\* time.time() - start_time > 300
TimedOut(t, start) == t - start > TimeoutBudget

\* the form was not submitted: nothing below `if submitted` runs
FormNoSubmit ==
  /\ pc = "form"
  /\ ~run.submitted
  /\ payment_state' = EnsuredPaymentState
  /\ pc' = "idle"
  /\ chk' = NoCheck
  /\ UNCHANGED <<clockVars, pageLoads, qp, generations, abandoned, payment_success, payment_session_id, run, create,
                 providerVars, ledger, wh, historyVars>>

\* status == 'paid': proceed to generation
GatePaid ==
  /\ pc = "form"
  /\ run.submitted
  /\ EnsuredPaymentState.status = "paid"
  /\ payment_state' = EnsuredPaymentState
  /\ pc' = "validate"
  /\ UNCHANGED <<clockVars, pageLoads, qp, generations, abandoned, payment_success, payment_session_id, run, chk, create,
                 providerVars, ledger, wh, historyVars>>

\* status == 'pending' and the 5 minutes are over: st.error, reset, st.stop()
GateTimeout ==
  /\ pc = "form"
  /\ run.submitted
  /\ EnsuredPaymentState.status = "pending"
  /\ TimedOut(now, payment_state.start_time)
  /\ payment_state' = ResetPaymentState
  /\ abandoned' = abandoned \cup {payment_state.session_id}
  /\ pc' = "idle"
  /\ run' = [run EXCEPT !.outcome = "timeout", !.submitted = FALSE]
  /\ nonPaidPolls' = 0
  /\ UNCHANGED <<clockVars, pageLoads, qp, generations, payment_success, payment_session_id, chk, create,
                 providerVars, ledger, wh, pollHistory, race>>

\* status == 'pending' within the 5 minutes: check_payment_status(session_id)
GatePoll ==
  /\ pc = "form"
  /\ run.submitted
  /\ EnsuredPaymentState.status = "pending"
  /\ ~TimedOut(now, payment_state.start_time)
  /\ pc' = "retrieve"
  /\ chk' = NewCheck("gate", payment_state.session_id)
  /\ UNCHANGED <<clockVars, pageLoads, qp, generations, abandoned, sessionVars, run, create, providerVars, ledger, wh, historyVars>>

\* any other status: create_payment_session("user123")
GateCreate ==
  /\ pc = "form"
  /\ run.submitted
  /\ EnsuredPaymentState.status \notin {"paid", "pending"}
  /\ payment_state' = EnsuredPaymentState
  /\ pc' = "create"
  /\ create' = [NoCreate EXCEPT !.attempt = 1]
  /\ UNCHANGED <<clockVars, pageLoads, qp, generations, abandoned, payment_success, payment_session_id, run, chk,
                 providerVars, ledger, wh, historyVars>>

\* ---- create_payment_session and log_transaction ----
\* stripe.checkout.Session.create raises StripeError: the function prints and
\* returns None; main then fails on None.split and resets the payment state
CreateStripeError ==
  /\ pc = "create"
  /\ create' = [NoCreate EXCEPT !.result = "None"]
  /\ payment_state' = ResetPaymentState
  /\ pc' = "idle"
  /\ run' = [run EXCEPT !.trips = @ + 1, !.outcome = "create_error", !.submitted = FALSE]
  /\ UNCHANGED <<clockVars, pageLoads, qp, generations, abandoned, payment_success, payment_session_id, chk,
                 providerVars, ledger, wh, historyVars>>

\* stripe.checkout.Session.create succeeds: the provider has a new open session
CreateStripeOk ==
  /\ pc = "create"
  /\ nSessions < MaxSessions
  /\ nSessions' = nSessions + 1
  /\ provStatus' = [provStatus EXCEPT ![nSessions + 1] = "unpaid"]
  /\ create' = [create EXCEPT !.sid = nSessions + 1, !.logAttempt = 1]
  /\ pc' = "log"
  /\ run' = [run EXCEPT !.trips = @ + 1]
  /\ UNCHANGED <<clockVars, pageLoads, qp, generations, abandoned, sessionVars, chk, events, ledger, wh, historyVars>>

\* the insert succeeds; create_payment_session returns session.url and main
\* moves the gate to pending and stops
LogOk ==
  /\ pc = "log"
  /\ ledger' = LedgerInsert(ledger, create.sid, LocalTimestamp)
  /\ create' = [NoCreate EXCEPT !.result = "url"]
  /\ payment_state' = [payment_state EXCEPT !.status = "pending",
                                            !.session_id = ParseSessionId(SessionUrl(create.sid)),
                                            !.start_time = now]
  /\ nonPaidPolls' = 0
  /\ pc' = "idle"
  /\ run' = [run EXCEPT !.outcome = "needs_payment", !.submitted = FALSE]
  /\ UNCHANGED <<clockVars, pageLoads, qp, generations, abandoned, payment_success, payment_session_id, chk,
                 providerVars, wh, pollHistory, race>>

\* the insert fails: log_transaction is retried; after its last attempt the
\* RetryError leaves create_payment_session's try block (it is no StripeError)
\* and create_payment_session itself is retried from the top; after its last
\* attempt the RetryError reaches main, which resets the payment state
LogFails ==
  /\ pc = "log"
  /\ IF create.logAttempt < LogAttempts
       THEN /\ create' = [create EXCEPT !.logAttempt = @ + 1]
            /\ UNCHANGED <<pc, run, payment_state>>
       ELSE IF create.attempt < CreateAttempts
         THEN /\ create' = [create EXCEPT !.attempt = @ + 1, !.logAttempt = 0]
              /\ pc' = "create"
              /\ UNCHANGED <<run, payment_state>>
         ELSE /\ create' = [NoCreate EXCEPT !.result = "raised"]
              /\ payment_state' = ResetPaymentState
              /\ pc' = "idle"
              /\ run' = [run EXCEPT !.outcome = "create_error", !.submitted = FALSE]
  /\ UNCHANGED <<clockVars, pageLoads, qp, generations, abandoned, payment_success, payment_session_id, chk,
                 providerVars, ledger, wh, historyVars>>

\* ---- what main does with the result r of check_payment_status ----
\* ("raised": the call raised an exception that is no StripeError)
\* payment-success block
AfterCallbackCheck(r, base) ==
  /\ IF r = "paid"
       THEN /\ payment_success' = "True"
            /\ payment_session_id' = chk.sid
            /\ Rerun(base, "verified")
       ELSE /\ pc' = "form"
            /\ run' = base
            /\ chk' = NoCheck
            /\ UNCHANGED <<payment_success, payment_session_id>>
  /\ UNCHANGED <<payment_state, now, nonPaidPolls, generations, abandoned>>

\* a gate that lets through every status but 'unpaid'
GateAcceptsNotUnpaid(payment_status) == payment_status # "unpaid"

\* if payment_status == 'paid'
GateAccepts(payment_status) == payment_status = "paid"

\* the pending branch of the gate
AfterGatePoll(r, base) ==
  /\ UNCHANGED <<payment_success, payment_session_id, generations>>
  /\ IF r = "raised"
       THEN /\ payment_state' = ResetPaymentState
            /\ abandoned' = abandoned \cup {payment_state.session_id}
            /\ EndRun(base, "poll_error")
            /\ nonPaidPolls' = 0
            /\ UNCHANGED now
       ELSE IF GateAccepts(r)
         THEN /\ payment_state' = [payment_state EXCEPT !.status = "paid"]
              /\ Rerun(base, "paid")
              /\ nonPaidPolls' = 0
              /\ UNCHANGED <<now, abandoned>>
         ELSE IF payment_state.retries = Absent
                THEN \* KeyError on payment_state['retries'], caught by except
                     /\ payment_state' = ResetPaymentState
                     /\ abandoned' = abandoned \cup {payment_state.session_id}
                     /\ EndRun(base, "poll_error")
                     /\ nonPaidPolls' = 0
                     /\ UNCHANGED now
                ELSE IF payment_state.retries + 1 >= MaxRetries
                  THEN /\ payment_state' = ResetPaymentState
                       /\ abandoned' = abandoned \cup {payment_state.session_id}
                       /\ EndRun(base, "max_retries")
                       /\ nonPaidPolls' = 0
                       /\ UNCHANGED now
                  ELSE /\ payment_state' = [payment_state EXCEPT !.retries = @ + 1]
                       /\ now' = now + BackoffInterval
                       /\ nonPaidPolls' = nonPaidPolls + 1
                       /\ Rerun(base, "pending")
                       /\ UNCHANGED abandoned

\* step 2 of the generation flow: the cover letter is generated after a paid check
AfterGenerationCheck(r, base) ==
  /\ EndRun(base, IF r = "paid" THEN "generated"
                  ELSE IF r = "raised" THEN "generation_failed" ELSE "not_paid")
  /\ generations' = IF r = "paid" THEN generations + 1 ELSE generations
  /\ UNCHANGED <<sessionVars, now, nonPaidPolls, abandoned>>

Return(r, base) ==
  CASE chk.site = "callback" -> AfterCallbackCheck(r, base)
    [] chk.site = "gate" -> AfterGatePoll(r, base)
    [] chk.site = "generation" -> AfterGenerationCheck(r, base)

\* ---- check_payment_status ----
\* one of the two carries 'paid' and the other does not
Opposed(a, b) == (a = "paid") # (b = "paid")

\* a verify_webhook call that will write the ledger row of session s is in progress
WebhookInFlight(s) == wh.pc = "update" /\ wh.event.id = s

\* a check_payment_status call that has read the status of session s is in progress
PollInFlight(s) == pc = "update" /\ chk.sid = s

MarkPolled(h, sid) ==
  IF sid \in Sids /\ h[sid] = "never" THEN [h EXCEPT ![sid] = "polled"] ELSE h

\* Session.retrieve raises StripeError (transport failure, unknown id):
\* check_payment_status prints and returns "error"
RetrieveStripeError ==
  /\ pc = "retrieve"
  /\ pollHistory' = MarkPolled(pollHistory, chk.sid)
  /\ Return("error", [run EXCEPT !.trips = @ + 1])
  /\ UNCHANGED <<ticks, utcOffset, pageLoads, qp, create, providerVars, ledger, wh, race>>

\* Session.retrieve returns the session with its current payment_status
RetrieveOk ==
  /\ pc = "retrieve"
  /\ chk.sid \in 1..nSessions
  /\ chk' = [chk EXCEPT !.status = provStatus[chk.sid]]
  /\ pc' = "update"
  /\ run' = [run EXCEPT !.trips = @ + 1]
  /\ pollHistory' = MarkPolled(pollHistory, chk.sid)
  /\ race' = IF WebhookInFlight(chk.sid) /\ Opposed(provStatus[chk.sid], wh.event.payment_status)
               THEN chk.sid ELSE race
  /\ UNCHANGED <<clockVars, pageLoads, qp, generations, abandoned, sessionVars, create, providerVars, ledger, wh, nonPaidPolls>>

\* the ledger update succeeds and the status read is returned
UpdateOk ==
  /\ pc = "update"
  /\ ledger' = PollUpdate(ledger, chk.sid, chk.status, LocalTimestamp)
  /\ pollHistory' = IF chk.status = "paid" THEN [pollHistory EXCEPT ![chk.sid] = "paid"] ELSE pollHistory
  /\ race' = IF race > 0 /\ ~WebhookInFlight(race) THEN None ELSE race
  /\ Return(chk.status, run)
  /\ UNCHANGED <<ticks, utcOffset, pageLoads, qp, create, providerVars, wh>>

\* the ledger update raises: the exception leaves check_payment_status
UpdateFails ==
  /\ pc = "update"
  /\ race' = IF race > 0 THEN None ELSE race
  /\ Return("raised", run)
  /\ UNCHANGED <<ticks, utcOffset, pageLoads, qp, create, providerVars, ledger, wh, pollHistory>>

\* ---- main(): after the gate, status is 'paid' ----
\* `not st.session_state.payment_success` raises AttributeError when the
\* payment-success block never ran in this user session
ValidateUncaught ==
  /\ pc = "validate"
  /\ payment_success = "absent"
  /\ pc' = "idle"
  /\ run' = [run EXCEPT !.outcome = "uncaught", !.submitted = FALSE]
  /\ UNCHANGED <<clockVars, pageLoads, qp, generations, abandoned, sessionVars, chk, create, providerVars, ledger, wh, historyVars>>

\* validation errors are shown and the run stops
ValidateErrors ==
  /\ pc = "validate"
  /\ payment_success = "True"
  /\ pc' = "idle"
  /\ run' = [run EXCEPT !.outcome = "validation_errors", !.submitted = FALSE]
  /\ UNCHANGED <<clockVars, pageLoads, qp, generations, abandoned, sessionVars, chk, create, providerVars, ledger, wh, historyVars>>

\* extract_resume_text returns None
ExtractFails ==
  /\ pc = "validate"
  /\ payment_success = "True"
  /\ pc' = "idle"
  /\ run' = [run EXCEPT !.outcome = "extract_failed", !.submitted = FALSE]
  /\ UNCHANGED <<clockVars, pageLoads, qp, generations, abandoned, sessionVars, chk, create, providerVars, ledger, wh, historyVars>>

\* step 2: check_payment_status(st.session_state.payment_session_id)
VerifyBeforeGeneration ==
  /\ pc = "validate"
  /\ payment_success = "True"
  /\ generations < MaxGenerations
  /\ IF payment_session_id = Absent
       THEN pc' = "idle" /\ run' = [run EXCEPT !.outcome = "no_session", !.submitted = FALSE] /\ UNCHANGED chk
       ELSE pc' = "retrieve" /\ chk' = NewCheck("generation", payment_session_id) /\ UNCHANGED run
  /\ UNCHANGED <<clockVars, pageLoads, qp, generations, abandoned, sessionVars, create, providerVars, ledger, wh, historyVars>>

\* ---- verify_webhook ----
\* the payloads that can arrive: with the right signature only what Stripe
\* sent, with a wrong one anything
Payloads(sig) ==
  IF sig = WebhookSecret
    THEN events
    ELSE [type : {"checkout.session.completed"}, id : 1..nSessions, payment_status : PaymentStatuses]

\* a delivery arrives: construct_event, the except clause and the test of the
\* event type; a completed checkout goes on to the ledger update
WebhookReceive(payload, sig_header) ==
  /\ wh.pc = "idle"
  /\ sig_header \in Signatures
  /\ payload \in Payloads(sig_header)
  /\ LET event == construct_event(payload, sig_header)
     IN IF event = SignatureError
          THEN wh' = [IdleWebhook EXCEPT !.result = "None"] /\ UNCHANGED race
          ELSE IF event.type = "checkout.session.completed"
            THEN /\ wh' = [pc |-> "update", event |-> event, sig |-> sig_header,
                           attempt |-> 1, result |-> "none"]
                 /\ race' = IF PollInFlight(event.id) /\ Opposed(chk.status, event.payment_status)
                              THEN event.id ELSE race
            ELSE wh' = [IdleWebhook EXCEPT !.result = "event"] /\ UNCHANGED race
  /\ UNCHANGED <<clockVars, pageLoads, qp, generations, abandoned, sessionVars, pc, run, chk, create, providerVars, ledger,
                 pollHistory, nonPaidPolls>>

\* the ledger update succeeds and the event is returned
WebhookUpdateOk ==
  /\ wh.pc = "update"
  /\ ledger' = WebhookUpdate(ledger, wh.event, UtcTimestamp)
  /\ wh' = [IdleWebhook EXCEPT !.result = "event"]
  /\ race' = IF race > 0 /\ ~PollInFlight(race) THEN None ELSE race
  /\ UNCHANGED <<clockVars, pageLoads, qp, generations, abandoned, sessionVars, pc, run, chk, create, providerVars,
                 pollHistory, nonPaidPolls>>

\* the ledger update raises: tenacity runs verify_webhook again, and raises
\* RetryError after the last attempt
WebhookUpdateFails ==
  /\ wh.pc = "update"
  /\ IF wh.attempt < WebhookAttempts
       THEN wh' = [wh EXCEPT !.attempt = @ + 1] /\ UNCHANGED race
       ELSE /\ wh' = [IdleWebhook EXCEPT !.result = "RetryError"]
            /\ race' = IF race > 0 THEN None ELSE race
  /\ UNCHANGED <<clockVars, pageLoads, qp, generations, abandoned, sessionVars, pc, run, chk, create, providerVars, ledger,
                 pollHistory, nonPaidPolls>>

Next ==
  \/ \E d \in ClockSteps : Tick(d)
  \/ \E q \in {None} \cup Sids : PageLoad(q)
  \/ \E s \in Sids : Pay(s, "paid")
  \/ \E s \in Sids : Pay(s, "no_payment_required")
  \/ \E sub \in BOOLEAN : RunStart(sub)
  \/ FormNoSubmit
  \/ GatePaid
  \/ GateTimeout
  \/ GatePoll
  \/ GateCreate
  \/ CreateStripeError
  \/ CreateStripeOk
  \/ LogOk
  \/ LogFails
  \/ RetrieveStripeError
  \/ RetrieveOk
  \/ UpdateOk
  \/ UpdateFails
  \/ ValidateUncaught
  \/ ValidateErrors
  \/ ExtractFails
  \/ VerifyBeforeGeneration
  \/ \E sig \in Signatures : \E payload \in Payloads(sig) : WebhookReceive(payload, sig)
  \/ WebhookUpdateOk
  \/ WebhookUpdateFails

Spec == Init /\ [][Next]_vars

\* The script alone, with page loads, the clock and the customer paying:
\* the webhook handler is not deployed (nothing in main.py serves it).
NextGate ==
  \/ \E d \in ClockSteps : Tick(d)
  \/ \E q \in {None} \cup Sids : PageLoad(q)
  \/ \E s \in Sids : Pay(s, "paid")
  \/ \E sub \in BOOLEAN : RunStart(sub)
  \/ FormNoSubmit
  \/ GatePaid
  \/ GateTimeout
  \/ GatePoll
  \/ GateCreate
  \/ CreateStripeError
  \/ CreateStripeOk
  \/ LogOk
  \/ LogFails
  \/ RetrieveStripeError
  \/ RetrieveOk
  \/ UpdateOk
  \/ UpdateFails
  \/ ValidateUncaught
  \/ ValidateErrors
  \/ ExtractFails
  \/ VerifyBeforeGeneration

SpecGate == Init /\ [][NextGate]_vars

\* One user session that is never reloaded, from session creation to the
\* timeout of the attempt.
NextTimeout ==
  \/ \E d \in ClockSteps : Tick(d)
  \/ \E s \in Sids : Pay(s, "paid")
  \/ \E sub \in BOOLEAN : RunStart(sub)
  \/ FormNoSubmit
  \/ GatePaid
  \/ GateTimeout
  \/ GatePoll
  \/ GateCreate
  \/ CreateStripeError
  \/ CreateStripeOk
  \/ LogOk
  \/ LogFails
  \/ RetrieveStripeError
  \/ RetrieveOk
  \/ UpdateOk
  \/ UpdateFails
  \/ ValidateUncaught

SpecTimeout == Init /\ [][NextTimeout]_vars

\* The gate's polls racing with webhook deliveries on the ledger, in one user
\* session that is never reloaded and whose attempts do not time out.
NextLedger ==
  \/ \E s \in Sids : Pay(s, "paid")
  \/ \E sub \in BOOLEAN : RunStart(sub)
  \/ FormNoSubmit
  \/ GatePaid
  \/ GatePoll
  \/ GateCreate
  \/ CreateStripeError
  \/ CreateStripeOk
  \/ LogOk
  \/ LogFails
  \/ RetrieveStripeError
  \/ RetrieveOk
  \/ UpdateOk
  \/ UpdateFails
  \/ ValidateUncaught
  \/ \E sig \in Signatures : \E payload \in Payloads(sig) : WebhookReceive(payload, sig)
  \/ WebhookUpdateOk
  \/ WebhookUpdateFails

SpecLedger == Init /\ [][NextLedger]_vars

\* One user session whose checkouts complete with or without a charge (a
\* session that needs no payment completes with 'no_payment_required').
NextWaived ==
  \/ \E s \in Sids : Pay(s, "paid")
  \/ \E s \in Sids : Pay(s, "no_payment_required")
  \/ \E sub \in BOOLEAN : RunStart(sub)
  \/ FormNoSubmit
  \/ GatePaid
  \/ GatePoll
  \/ GateCreate
  \/ CreateStripeError
  \/ CreateStripeOk
  \/ LogOk
  \/ LogFails
  \/ RetrieveStripeError
  \/ RetrieveOk
  \/ UpdateOk
  \/ UpdateFails
  \/ ValidateUncaught

SpecWaived == Init /\ [][NextWaived]_vars

\* the steps of a script run, from its start to its end
ScriptStep ==
  \/ FormNoSubmit
  \/ GatePaid
  \/ GatePoll
  \/ GateCreate
  \/ CreateStripeError
  \/ CreateStripeOk
  \/ LogOk
  \/ LogFails
  \/ RetrieveStripeError
  \/ RetrieveOk
  \/ UpdateOk
  \/ UpdateFails
  \/ ValidateUncaught
  \/ ValidateErrors
  \/ ExtractFails
  \/ VerifyBeforeGeneration

\* The script with the Stripe redirect to success_url; no attempt times out.
NextCallback ==
  \/ \E q \in {None} \cup Sids : PageLoad(q)
  \/ \E s \in Sids : Pay(s, "paid")
  \/ \E sub \in BOOLEAN : RunStart(sub)
  \/ ScriptStep

\* Streamlit runs a script run to its end: a run that has started keeps
\* taking steps
FairCallback == Init /\ [][NextCallback]_vars /\ WF_vars(ScriptStep)

\* ---- C1 ----
\* C1: the cover letter is generated only in a run in which the gate's
\* payment status is 'paid' and a check_payment_status call for the gate's
\* session has returned 'paid'; never from unpaid, pending or a failed attempt.
GenerationOnlyWhenPaid ==
  run.outcome = "generated" =>
    /\ payment_state.status = "paid"
    /\ payment_state.session_id \in Sids
    /\ pollHistory[payment_state.session_id] = "paid"
    /\ provStatus[payment_state.session_id] = "paid"

\* a run that generated the cover letter
GenerationReached == run.outcome = "generated"

\* ---- C2 ----
\* C2: once a ledger row has status 'paid', no later step changes its status
\* away from 'paid'.
PaidIsWriteOnce ==
  [][\A s \in Sids : ledger[s].status = "paid" => ledger'[s].status = "paid"]_vars

\* ---- C3 ----
\* C3: when a poll and a webhook delivery for the same session run
\* concurrently, one carrying 'paid' and the other not, the row's status is
\* 'paid' once both have written.
RaceConvergence ==
  [][(/\ race > 0
      /\ race' = None
      /\ UpdateOk \/ WebhookUpdateOk
      /\ ledger[race] # NoRow) => ledger'[race].status = "paid"]_vars

\* ---- C4 ----
\* C4: a poll or a webhook delivery on a row that is already 'paid' writes
\* nothing: status, updated_at and the stored payload stay as they are.
PaidRowIsNeverRewritten ==
  [][\A s \in Sids : ledger[s].status = "paid" => ledger'[s] = ledger[s]]_vars

\* ---- C5 ----
\* C5: a submission in the pending state strictly more than 300 time units
\* after the session was created ends the attempt with the timeout error and
\* makes no provider call; at most 300 time units after, it polls the provider.
TimeoutBoundary ==
  [][(/\ pc = "form"
      /\ pc' # "form"
      /\ run.submitted
      /\ payment_state.status = "pending") =>
        IF now - payment_state.start_time > TimeoutBudget
          THEN /\ pc' = "idle"
               /\ run'.outcome = "timeout"
               /\ run'.trips = run.trips
               /\ payment_state'.status = "unpaid"
               /\ pollHistory' = pollHistory
          ELSE /\ pc' = "retrieve"
               /\ chk'.site = "gate"
               /\ chk'.sid = payment_state.session_id
               /\ payment_state' = payment_state]_vars

\* the attempt created when the user session opened has timed out one time
\* unit after the budget
TimedOutJustAfterBudget ==
  run.outcome = "timeout" /\ now = Epoch + TimeoutBudget + 1

\* ---- C6 ----
\* C6: in every attempt the gate stays pending after each of the first 4
\* non-paid polls (a check_payment_status call of the gate that returns a
\* status other than 'paid') and fails with the max-retries error exactly on
\* the 5th.
RetryCeiling ==
  [][(/\ chk.site = "gate"
      /\ \/ RetrieveStripeError
         \/ UpdateOk /\ chk.status # "paid") =>
       IF nonPaidPolls + 1 < MaxRetries
         THEN payment_state'.status = "pending"
         ELSE payment_state'.status = "unpaid" /\ run'.outcome = "max_retries"]_vars

\* ---- C7 ----
\* C7: for a session with a ledger row that was never polled, a validly signed
\* checkout.session.completed delivery reporting 'paid' sets the row to 'paid'.
WebhookOnlyConfirmation ==
  [][\A s \in Sids :
       (/\ wh.pc = "update"
        /\ wh.event.id = s
        /\ wh.event.payment_status = "paid"
        /\ wh'.pc = "idle"
        /\ wh'.result = "event"
        /\ ledger[s] # NoRow
        /\ pollHistory[s] = "never") => ledger'[s].status = "paid"]_vars

\* a row confirmed by a delivery alone
ConfirmedByWebhookAlone ==
  \E s \in Sids : /\ pollHistory[s] = "never"
                  /\ ledger[s].status = "paid"
                  /\ wh.result = "event"

\* ---- C8 ----
\* C8: a delivery whose signature does not verify changes no ledger row,
\* returns None instead of the event, and is not tried again: the handler
\* never reaches its ledger update with a signature other than the secret's.
FailClosedWebhook ==
  /\ [](wh.pc = "update" => wh.sig = WebhookSecret)
  /\ [][\A sig \in Signatures : \A payload \in Payloads(sig) :
          (sig # WebhookSecret /\ WebhookReceive(payload, sig)) =>
             (wh'.pc = "idle" /\ wh'.result = "None" /\ ledger' = ledger)]_vars

\* a delivery was rejected while a session had a ledger row
WebhookRejected ==
  wh.result = "None" /\ \E s \in Sids : ledger[s] # NoRow

\* ---- C9 ----
\* C9: when the provider created the session and the ledger insert fails on
\* its last attempt, create_payment_session still returns that session's URL:
\* the gate shows the link and is pending on that session.
CreateToleratesLedgerFailure ==
  [][(/\ pc = "log"
      /\ create.logAttempt = LogAttempts
      /\ LogFails) =>
        (/\ pc' = "idle"
         /\ run'.outcome = "needs_payment"
         /\ payment_state'.status = "pending"
         /\ payment_state'.session_id = create.sid)]_vars

\* ---- C10 ----
\* C10: a create or retrieve call that hits a provider error reports failure
\* only after its 3rd attempt against the provider has failed.
ProviderRetryPolicy ==
  [][/\ CreateStripeError => create.attempt = CreateAttempts
     /\ RetrieveStripeError => chk.attempt = CreateAttempts]_vars

\* ---- C11 ----
\* C11: when Session.create fails, create_payment_session reports the error to
\* its caller as a failure (it raises, it does not return None) and the gate
\* ends the attempt unpaid without entering pending.
CreateErrorIsSurfaced ==
  [][CreateStripeError =>
       (create'.result = "raised" /\ payment_state'.status = "unpaid")]_vars

\* ---- C12 ----
\* C12: a gate poll that reads 'no_payment_required' records 'paid' in the
\* ledger and moves the gate to paid, without counting a retry.
NoPaymentRequiredIsPaid ==
  [][(/\ chk.site = "gate"
      /\ chk.status = "no_payment_required"
      /\ UpdateOk) =>
        (/\ ledger'[chk.sid].status = "paid"
         /\ payment_state'.status = "paid"
         /\ payment_state'.retries = payment_state.retries)]_vars

\* ---- C13 ----
\* C13: every successful session creation by the gate enters pending with the
\* retry counter 0, the start time the time of creation and the session id
\* that of the new session.
PendingEntryIsFresh ==
  [][LogOk =>
       (/\ payment_state'.status = "pending"
        /\ payment_state'.retries = 0
        /\ payment_state'.start_time = now
        /\ payment_state'.session_id = create.sid)]_vars

\* ---- C14 ----
\* C14: once the gate is paid, a request whose inputs are valid (no validation
\* error, the resume text is extracted) goes on to the generation flow's
\* payment check: it does not end in an uncaught error, whether or not a
\* payment-success callback was processed in the user session.
PaidGateIsAuthorized ==
  [][(/\ pc = "validate"
      /\ pc' # "validate"
      /\ ~ValidateErrors
      /\ ~ExtractFails) =>
        (pc' = "retrieve" /\ chk'.site = "generation")]_vars

\* ---- C15 ----
\* C15: for one paid gate state (one user session) the cover letter is
\* generated at most once.
AuthorizedExactlyOnce == generations <= 1

\* ---- C16 ----
\* C16: a failed attempt is terminal: failing a pending attempt drops its
\* session id, the gate never polls an abandoned session id again, and the
\* next submitted request of an unpaid gate calls Session.create, whose new
\* session is none of the abandoned ones.
FailedAttemptIsTerminal ==
  /\ []((pc \in {"retrieve", "update"} /\ chk.site = "gate") => chk.sid \notin abandoned)
  /\ [][(payment_state.status = "pending" /\ payment_state'.status = "unpaid") =>
          (/\ payment_state'.session_id = Absent
           /\ payment_state.session_id \in abandoned')]_vars
  /\ [][(/\ pc = "form"
         /\ pc' # "form"
         /\ run.submitted
         /\ payment_state.status = "unpaid") => pc' = "create"]_vars
  /\ [][CreateStripeOk => create'.sid \notin abandoned]_vars

\* the gate polls the session of a new attempt after it has failed another
PollAfterFailedAttempt ==
  abandoned # {} /\ pc = "retrieve" /\ chk.site = "gate"

\* ---- C17 ----
\* C17: a gate poll that ends in a provider error adds one to the retry
\* counter and leaves the gate pending, unless it is the 5th non-paid poll of
\* the attempt, which fails the attempt with the max-retries error.
ProviderErrorCountsAsRetry ==
  [][(chk.site = "gate" /\ RetrieveStripeError) =>
       IF nonPaidPolls + 1 < MaxRetries
         THEN /\ payment_state'.status = "pending"
              /\ payment_state'.retries = nonPaidPolls + 1
         ELSE run'.outcome = "max_retries"]_vars

\* ---- C18 ----
\* C18: a script run makes at most one call to the payment provider.
OneRoundTripPerRun == run.trips <= 1

\* ---- C19 ----
\* C19: every ledger row that was updated has updated_at >= created_at.
UpdatedNotBeforeCreated ==
  \A s \in Sids :
    ledger[s].updated_at # Absent => ledger[s].updated_at >= ledger[s].created_at

\* ---- C20 ----
\* C20: when the payment-success block has verified the session of the query
\* parameters as paid, the reruns that follow eventually reach the form.
CallbackTerminates ==
  (pc = "update" /\ chk.site = "callback" /\ chk.status = "paid") ~> (pc = "form")

\* ---- C21 ----
\* C21: one create_payment_session call creates at most one checkout session
\* at the provider, and when the call has told its caller that creation
\* failed (it returned None or raised) no provider session is without a
\* ledger row.
OneSessionPerCreate ==
  /\ [][CreateStripeOk => create.sid = None]_vars
  /\ [](create.result \in {"None", "raised"} =>
          \A s \in 1..nSessions : ledger[s] # NoRow)

====
